---- MODULE Spec2Model ----
(***************************************************************************)
(* Model of internal/usage/token_distribution.go: the 1:2:25 cache token   *)
(* distribution (DistributeCacheTokens) and the two methods of its result  *)
(* record (TotalInputTokens, HasCacheTokens).                              *)
(*                                                                         *)
(* Go's int64 is modelled as a signed two's-complement integer of IntWidth *)
(* bits: +, - and * wrap around, / truncates toward zero.  The width is    *)
(* scaled down so that the whole range can be enumerated; it is chosen so  *)
(* that the threshold (100), the documented example (1000) and inputs      *)
(* whose doubling leaves the range all exist.                              *)
(***************************************************************************)
EXTENDS Integers, FiniteSets, Sequences, TLC

VARIABLES
    totalInputTokens,  \* the argument of the sequential call
    d,                 \* the CacheTokenDistribution record in hand
    pc,                \* "start", "threshold", "ratio" (branch returned from) or "literal"
    total,             \* value returned by d.TotalInputTokens()
    totalCalled,       \* whether d.TotalInputTokens() has been called
    has,               \* value returned by d.HasCacheTokens()
    hasCalled,         \* whether d.HasCacheTokens() has been called
    cTotal,            \* per caller: its totalInputTokens parameter
    cPc,               \* per caller: position inside DistributeCacheTokens
    cInput,            \* per caller: local `input`
    cCreation,         \* per caller: local `creation`
    cRead,             \* per caller: local `read`
    cResult,           \* per caller: the returned record
    interleaved        \* history: some step ran while another caller was mid-call

seqVars == <<totalInputTokens, d, pc, total, totalCalled, has, hasCalled>>
concVars == <<cTotal, cPc, cInput, cCreation, cRead, cResult, interleaved>>
vars == <<totalInputTokens, d, pc, total, totalCalled, has, hasCalled,
          cTotal, cPc, cInput, cCreation, cRead, cResult, interleaved>>

-----------------------------------------------------------------------------
(* Bounds *)

IntWidth == 12

MaxField == 1

NumCallers == 2

-----------------------------------------------------------------------------
(* int64 arithmetic *)

MaxInt64 == 2^(IntWidth - 1) - 1
MinInt64 == -(2^(IntWidth - 1))
Int64 == MinInt64..MaxInt64

\* Two's-complement wrap-around of a mathematical integer.
Wrap(x) == ((x - MinInt64) % (2^IntWidth)) + MinInt64

Add(a, b) == Wrap(a + b)
Sub(a, b) == Wrap(a - b)
Mul(a, b) == Wrap(a * b)

\* Go integer division truncates toward zero (b > 0 here).
Quo(a, b) == IF a >= 0 THEN a \div b ELSE -((-a) \div b)

-----------------------------------------------------------------------------
(* Constants of the package *)

DistributionThreshold == 100

inputRatioPart == 1

creationRatioPart == 2

readRatioPart == 25

totalRatioParts == inputRatioPart + creationRatioPart + readRatioPart

-----------------------------------------------------------------------------
(* CacheTokenDistribution and its methods *)

CacheTokenDistribution(i, c, r) ==
    [InputTokens |-> i, CacheCreationInputTokens |-> c, CacheReadInputTokens |-> r]

ZeroDistribution == CacheTokenDistribution(0, 0, 0)

TotalInputTokens(x) ==
    Add(Add(x.InputTokens, x.CacheCreationInputTokens), x.CacheReadInputTokens)

HasCacheTokensAnyField(x) ==
    x.InputTokens > 0 \/ x.CacheCreationInputTokens > 0 \/ x.CacheReadInputTokens > 0

HasCacheTokens(x) ==
    x.CacheCreationInputTokens > 0 \/ x.CacheReadInputTokens > 0

-----------------------------------------------------------------------------
(* DistributeCacheTokens *)

BelowThresholdOffByOne(t) == t < DistributionThreshold - 1

BelowThresholdUnsigned(t) == (t % (2^IntWidth)) < DistributionThreshold

BelowThreshold(t) == t < DistributionThreshold

PassThrough(t) == CacheTokenDistribution(t, 0, 0)

InputShare(t) == Quo(Mul(t, inputRatioPart), totalRatioParts)

CreationShare(t) == Quo(Mul(t, creationRatioPart), totalRatioParts)

ReadShareByDivision(t, input, creation) == Quo(Mul(t, readRatioPart), totalRatioParts)

ReadShare(t, input, creation) == Sub(Sub(t, input), creation)

RatioSplit(t) ==
    LET input == InputShare(t)
        creation == CreationShare(t)
        read == ReadShare(t, input, creation)
    IN  CacheTokenDistribution(input, creation, read)

DistributeCacheTokens(t) ==
    IF BelowThreshold(t) THEN PassThrough(t) ELSE RatioSplit(t)

-----------------------------------------------------------------------------
(* Sequential use: one call of DistributeCacheTokens, or a record built by *)
(* the caller, followed by calls of the record's methods.                  *)

FieldVals == (-1)..MaxField

ConcIdle ==
    /\ cTotal = <<>>
    /\ cPc = <<>>
    /\ cInput = <<>>
    /\ cCreation = <<>>
    /\ cRead = <<>>
    /\ cResult = <<>>
    /\ interleaved = FALSE

Init ==
    /\ totalInputTokens \in Int64
    /\ d = ZeroDistribution
    /\ pc = "start"
    /\ total = 0
    /\ totalCalled = FALSE
    /\ has = FALSE
    /\ hasCalled = FALSE
    /\ ConcIdle

\* DistributeCacheTokens returning from the below-threshold branch.
DistributeBelowThreshold ==
    /\ pc = "start"
    /\ BelowThreshold(totalInputTokens)
    /\ d' = PassThrough(totalInputTokens)
    /\ pc' = "threshold"
    /\ UNCHANGED <<totalInputTokens, total, totalCalled, has, hasCalled>>
    /\ UNCHANGED concVars

\* DistributeCacheTokens returning from the 1:2:25 ratio branch.
DistributeRatio ==
    /\ pc = "start"
    /\ ~BelowThreshold(totalInputTokens)
    /\ d' = RatioSplit(totalInputTokens)
    /\ pc' = "ratio"
    /\ UNCHANGED <<totalInputTokens, total, totalCalled, has, hasCalled>>
    /\ UNCHANGED concVars

\* A caller builds a record of its own (the fields are exported).
MakeRecord ==
    /\ pc = "start"
    /\ \E i \in FieldVals, c \in FieldVals, r \in FieldVals :
           d' = CacheTokenDistribution(i, c, r)
    /\ pc' = "literal"
    /\ UNCHANGED <<totalInputTokens, total, totalCalled, has, hasCalled>>
    /\ UNCHANGED concVars

CallTotalInputTokens ==
    /\ pc # "start"
    /\ ~totalCalled
    /\ total' = TotalInputTokens(d)
    /\ totalCalled' = TRUE
    /\ UNCHANGED <<totalInputTokens, d, pc, has, hasCalled>>
    /\ UNCHANGED concVars

CallHasCacheTokens ==
    /\ pc # "start"
    /\ ~hasCalled
    /\ has' = HasCacheTokens(d)
    /\ hasCalled' = TRUE
    /\ UNCHANGED <<totalInputTokens, d, pc, total, totalCalled>>
    /\ UNCHANGED concVars

Next ==
    \/ DistributeBelowThreshold
    \/ DistributeRatio
    \/ MakeRecord
    \/ CallTotalInputTokens
    \/ CallHasCacheTokens

Spec == Init /\ [][Next]_vars

-----------------------------------------------------------------------------
(* Concurrent use: NumCallers goroutines inside DistributeCacheTokens at   *)
(* once, each statement of the function one atomic step.                   *)

Callers == 1..NumCallers

\* Sampled arguments: negative, zero, both sides of the threshold, the
\* largest value whose doubling stays in the int64 range, the smallest one
\* whose doubling leaves it, and the maximum.
ConcInputs ==
    {-1, 0, DistributionThreshold - 1, DistributionThreshold,
     MaxInt64 \div 2, MaxInt64 \div 2 + 1, MaxInt64}

MidCall == {"creation", "read", "return"}

SeqIdle ==
    /\ totalInputTokens = 0
    /\ d = ZeroDistribution
    /\ pc = "start"
    /\ total = 0
    /\ totalCalled = FALSE
    /\ has = FALSE
    /\ hasCalled = FALSE

InitConc ==
    /\ SeqIdle
    /\ cTotal \in [Callers -> ConcInputs]
    /\ cPc = [i \in Callers |-> "call"]
    /\ cInput = [i \in Callers |-> 0]
    /\ cCreation = [i \in Callers |-> 0]
    /\ cRead = [i \in Callers |-> 0]
    /\ cResult = [i \in Callers |-> ZeroDistribution]
    /\ interleaved = FALSE

Overlaps(i) == \E j \in Callers : j # i /\ cPc[j] \in MidCall

\* if totalInputTokens < DistributionThreshold { return {InputTokens: totalInputTokens} }
ReturnBelow(i) ==
    /\ cPc[i] = "call"
    /\ BelowThreshold(cTotal[i])
    /\ cResult' = [cResult EXCEPT ![i] = PassThrough(cTotal[i])]
    /\ cPc' = [cPc EXCEPT ![i] = "done"]
    /\ interleaved' = (interleaved \/ Overlaps(i))
    /\ UNCHANGED <<cTotal, cInput, cCreation, cRead>>
    /\ UNCHANGED seqVars

\* input := totalInputTokens * inputRatioPart / totalRatioParts
ComputeInput(i) ==
    /\ cPc[i] = "call"
    /\ ~BelowThreshold(cTotal[i])
    /\ cInput' = [cInput EXCEPT ![i] = InputShare(cTotal[i])]
    /\ cPc' = [cPc EXCEPT ![i] = "creation"]
    /\ interleaved' = (interleaved \/ Overlaps(i))
    /\ UNCHANGED <<cTotal, cCreation, cRead, cResult>>
    /\ UNCHANGED seqVars

\* creation := totalInputTokens * creationRatioPart / totalRatioParts
ComputeCreation(i) ==
    /\ cPc[i] = "creation"
    /\ cCreation' = [cCreation EXCEPT ![i] = CreationShare(cTotal[i])]
    /\ cPc' = [cPc EXCEPT ![i] = "read"]
    /\ interleaved' = (interleaved \/ Overlaps(i))
    /\ UNCHANGED <<cTotal, cInput, cRead, cResult>>
    /\ UNCHANGED seqVars

\* As ComputeRead, but `input` is a package-level variable: the value read
\* is the one last stored by any caller.
ComputeReadSharedInput(i) ==
    /\ cPc[i] = "read"
    /\ \E j \in Callers :
           cRead' = [cRead EXCEPT ![i] = ReadShare(cTotal[i], cInput[j], cCreation[i])]
    /\ cPc' = [cPc EXCEPT ![i] = "return"]
    /\ interleaved' = (interleaved \/ Overlaps(i))
    /\ UNCHANGED <<cTotal, cInput, cCreation, cResult>>
    /\ UNCHANGED seqVars

\* read := totalInputTokens - input - creation
ComputeRead(i) ==
    /\ cPc[i] = "read"
    /\ cRead' = [cRead EXCEPT ![i] = ReadShare(cTotal[i], cInput[i], cCreation[i])]
    /\ cPc' = [cPc EXCEPT ![i] = "return"]
    /\ interleaved' = (interleaved \/ Overlaps(i))
    /\ UNCHANGED <<cTotal, cInput, cCreation, cResult>>
    /\ UNCHANGED seqVars

\* return CacheTokenDistribution{input, creation, read}
ReturnRatio(i) ==
    /\ cPc[i] = "return"
    /\ cResult' = [cResult EXCEPT ![i] =
                      CacheTokenDistribution(cInput[i], cCreation[i], cRead[i])]
    /\ cPc' = [cPc EXCEPT ![i] = "done"]
    /\ interleaved' = (interleaved \/ Overlaps(i))
    /\ UNCHANGED <<cTotal, cInput, cCreation, cRead>>
    /\ UNCHANGED seqVars

NextConc ==
    \E i \in Callers :
        \/ ReturnBelow(i)
        \/ ComputeInput(i)
        \/ ComputeCreation(i)
        \/ ComputeRead(i)
        \/ ReturnRatio(i)

SpecConc == InitConc /\ [][NextConc]_vars

-----------------------------------------------------------------------------
(* Properties *)

Distributed == pc \in {"threshold", "ratio"}

FieldSum == d.InputTokens + d.CacheCreationInputTokens + d.CacheReadInputTokens

\* C1: for every non-negative t the three fields of DistributeCacheTokens(t)
\* sum to t (as mathematical integers) on both branches, and
\* TotalInputTokens of the result returns t.
C1_SumInvariant ==
    (Distributed /\ totalInputTokens >= 0) =>
        /\ FieldSum = totalInputTokens
        /\ totalCalled => total = totalInputTokens

C1_Witness ==
    /\ pc = "ratio"
    /\ totalCalled
    /\ totalInputTokens = 1000
    /\ d.CacheReadInputTokens = 894
    /\ total = 1000

\* C2: for every t with 0 <= t < 100 the result is {t, 0, 0} and the
\* ratio branch is not taken.
C2_BelowThresholdPassThrough ==
    (Distributed /\ totalInputTokens >= 0 /\ totalInputTokens < 100) =>
        /\ pc = "threshold"
        /\ d = CacheTokenDistribution(totalInputTokens, 0, 0)

C2_Witness ==
    /\ pc = "threshold"
    /\ totalInputTokens = 99
    /\ d = CacheTokenDistribution(99, 0, 0)

\* C3: for every t >= 100 the result is {floor(t/28), floor(2t/28),
\* t - floor(t/28) - floor(2t/28)}; t = 100 gives {3, 7, 90} and
\* t = 1000 gives {35, 71, 894}.
C3_RatioFloors ==
    (Distributed /\ totalInputTokens >= 100) =>
        /\ pc = "ratio"
        /\ d.InputTokens = totalInputTokens \div 28
        /\ d.CacheCreationInputTokens = (2 * totalInputTokens) \div 28
        /\ d.CacheReadInputTokens =
               totalInputTokens - (totalInputTokens \div 28)
                                - ((2 * totalInputTokens) \div 28)
        /\ totalInputTokens = 100 => d = CacheTokenDistribution(3, 7, 90)
        /\ totalInputTokens = 1000 => d = CacheTokenDistribution(35, 71, 894)

\* C4: HasCacheTokens(d) is true iff CacheCreationInputTokens > 0 or
\* CacheReadInputTokens > 0, for any record (whatever its InputTokens), and
\* it is false for the result of DistributeCacheTokens(t), 0 <= t < 100.
C4_HasCacheTokensIff ==
    hasCalled =>
        /\ has <=> (d.CacheCreationInputTokens > 0 \/ d.CacheReadInputTokens > 0)
        /\ (Distributed /\ totalInputTokens >= 0 /\ totalInputTokens < 100) => ~has

C4_Witness ==
    /\ hasCalled
    /\ pc = "literal"
    /\ d.InputTokens > 0
    /\ d.CacheCreationInputTokens <= 0
    /\ d.CacheReadInputTokens <= 0
    /\ ~has

\* C5: for every non-negative t all three fields of
\* DistributeCacheTokens(t) are >= 0.
C5_FieldsNonNegative ==
    (Distributed /\ totalInputTokens >= 0) =>
        /\ d.InputTokens >= 0
        /\ d.CacheCreationInputTokens >= 0
        /\ d.CacheReadInputTokens >= 0

\* C6: for every representable t >= 100 the products t*1 and t*2 do not
\* wrap, so InputTokens = floor(t/28) and
\* CacheCreationInputTokens = floor(2t/28).
C6_NoWrapOverRange ==
    (pc = "ratio" /\ totalInputTokens >= 100) =>
        /\ Mul(totalInputTokens, inputRatioPart) = totalInputTokens * inputRatioPart
        /\ Mul(totalInputTokens, creationRatioPart) = totalInputTokens * creationRatioPart
        /\ d.InputTokens = totalInputTokens \div 28
        /\ d.CacheCreationInputTokens = (2 * totalInputTokens) \div 28

\* C7: under any interleaving of the callers' steps each caller that has
\* returned holds exactly the record DistributeCacheTokens gives for its
\* own argument.
C7_ConcurrentCallersIndependent ==
    \A i \in Callers :
        cPc[i] = "done" => cResult[i] = DistributeCacheTokens(cTotal[i])

C7_Witness ==
    /\ interleaved
    /\ \A i \in Callers : cPc[i] = "done" /\ cTotal[i] >= DistributionThreshold
    /\ \E i \in Callers, j \in Callers : cResult[i] # cResult[j]

\* C8: for every t >= 100 both cache fields of DistributeCacheTokens(t) are
\* strictly positive, so HasCacheTokens is true; for every non-negative t,
\* HasCacheTokens(DistributeCacheTokens(t)) = (t >= 100).
C8_HasCacheTokensIffAtThreshold ==
    (Distributed /\ totalInputTokens >= 0) =>
        /\ totalInputTokens >= 100 =>
               d.CacheCreationInputTokens > 0 /\ d.CacheReadInputTokens > 0
        /\ HasCacheTokens(d) <=> (totalInputTokens >= 100)
        /\ hasCalled => (has <=> (totalInputTokens >= 100))

\* C9: for every t >= 100,
\* floor(25t/28) <= CacheReadInputTokens <= floor(25t/28) + 2.
C9_ReadShareWithinTwo ==
    (Distributed /\ totalInputTokens >= 100) =>
        /\ (25 * totalInputTokens) \div 28 <= d.CacheReadInputTokens
        /\ d.CacheReadInputTokens <= (25 * totalInputTokens) \div 28 + 2

\* C10: for every negative t the below-threshold branch is taken and the
\* result is {t, 0, 0}: the fields sum to t and HasCacheTokens is false.
C10_NegativePassThrough ==
    (pc # "start" /\ pc # "literal" /\ totalInputTokens < 0) =>
        /\ pc = "threshold"
        /\ d = CacheTokenDistribution(totalInputTokens, 0, 0)
        /\ FieldSum = totalInputTokens
        /\ totalCalled => total = totalInputTokens
        /\ ~HasCacheTokens(d)
        /\ hasCalled => ~has

C10_Witness ==
    /\ pc = "threshold"
    /\ totalInputTokens < 0
    /\ d.InputTokens = totalInputTokens
    /\ hasCalled
    /\ totalCalled

====
